---- MODULE Spec2Model ----
(***************************************************************************)
(* Intellicat.py: the control core of a two-node reward robot.  Two        *)
(* processes run the same script, one with --role main (the Primary), one  *)
(* with --role secondary; they exchange the tokens PI1_DONE                 *)
(* (STAGE1_COMPLETE) and PI2_DONE (STAGE2_COMPLETE) over /dev/rfcomm0.      *)
(*                                                                         *)
(* Every global of the script is a function over Node here.  Times are in  *)
(* seconds; the wall clock advances in steps of TimeStep, between ticks    *)
(* and while the tick loop is blocked in a motion sequence.  One iteration *)
(* of the main loop (lines 819-995) is the chain of actions                *)
(*   LoopTop, Handle* / DrainDone, ScheduledStart, PeerTimeoutCheck,       *)
(*   Inference, SessionRules                                               *)
(* sequenced by pc.                                                        *)
(***************************************************************************)
EXTENDS Integers, Sequences, FiniteSets, TLC

VARIABLES
    clock,                \* time.time() / datetime.datetime.now(), seconds since midnight
    deadline,             \* the clock value at which the model stops the clock
    pc,                   \* position of each node's main loop
    st,                   \* the session globals of each node (lines 745-766, 728-731)
    message_queue,        \* queue.Queue of each node (line 200)
    bt_ser,               \* whether bt_ser is an open serial.Serial (line 204)
    movement_stop_event,  \* threading.Event (line 573)
    movement_thread,      \* whether movement_thread is a Thread (line 572)
    workers,              \* the live worker threads of each node, oldest first
    speed_mult,           \* SpeedControl.speed_mult (line 119), a fraction <<num, den>>
    link,                 \* the Primary's serial link, step by step: the reader
                          \* thread of bt_open_serial_loop (lines 207-246), the
                          \* device /dev/rfcomm0, and a call of send_ping between
                          \* its test and its write (lines 249-260).  The main
                          \* loop's actions take a send and a reception as one
                          \* step each; the PeerLink actions follow them line by
                          \* line
    rig,                  \* ServoRig (line 570): current_angles, the angle last
                          \* written to each servo, and each thread's calls of it.
                          \* The main loop's actions record the sequences they run
                          \* in ev.log; the ServoRig actions follow the same
                          \* sequences write by write
    ev,                   \* what the last step did: [who, log]
    hist                  \* history: of the handshake since the Primary last entered
                          \* its wait (stage1: it confirmed and wrote PI1_DONE; stage2:
                          \* the Secondary confirmed and wrote PI2_DONE; peerTreats:
                          \* dispenses upon PI2_DONE), and of the current iteration
                          \* (accepted: a MANUAL_START was accepted in it;
                          \* hourSeenIdle: it observed an hour change on the idle
                          \* Primary), and of the hour the Primary observes (starts:
                          \* episodes started; hourTreats: dispenses upon PI2_DONE),
                          \* and of each node's episode (signal: a poll made in it
                          \* reported a detection; stale: it started with a
                          \* session field left off its default)

vars == <<clock, deadline, pc, st, message_queue, bt_ser, movement_stop_event,
          movement_thread, workers, speed_mult, link, rig, ev, hist>>

----------------------------------------------------------------------------
(* Configuration and constants of the script *)

Node == {"main", "secondary"}
Peer(n) == IF n = "main" THEN "secondary" ELSE "main"

None == -1

\* argparse settings (lines 62-64); the model runs the configuration
\*   --start-hour 9 --max-cycles-per-hour 2 --peer-timeout 20 --enable-manual-start
start_hour == 9
max_cycles_per_hour == 2
peer_timeout == 20

infer_interval == 5
CloseThreshold == 8
CloseHoldSeconds == 10
NoSignalSeconds == 30
NoCloseSeconds == 120
HourSeconds == 3600

\* Bounds of the model
TimeStep == 10
Horizon == 40
HorizonNode == 60
HorizonEpisode == 130
HorizonMotion == 30
HorizonWait == 50
MaxQueue == 1
MaxWorkers == 2
MaxRigWorkers == 1
MaxSpeedTerm == 10000
MaxBurst == 2

\* what one detector poll can yield: no detection, or a score (8: at the
\* threshold, 9: above it)
Detections == {None, 8, 9}

Commands == {"MANUAL_START", "MANUAL_TREAT"}

\* lines a peer can send: the two tokens of the protocol and any other text
PeerTokens == {"PI1_DONE", "PI2_DONE", "HELLO"}

\* process start times: at the start hour, just before it, and just before
\* the hour boundary that follows it
AtStartHour == start_hour * HourSeconds
InitTimes == {AtStartHour,
              AtStartHour - TimeStep,
              AtStartHour + HourSeconds - 4 * TimeStep}

----------------------------------------------------------------------------
(* datetime arithmetic *)

HourOf(t) == (t \div HourSeconds) % 24
TopOfHour(t) == (t \div HourSeconds) * HourSeconds
DayStart(t) == (t \div (24 * HourSeconds)) * (24 * HourSeconds)

\* lines 758-766
InitialNextSessionTime(n, now_init) ==
    IF n = "main"
    THEN LET first == DayStart(now_init) + start_hour * HourSeconds
         IN  IF now_init <= first THEN first ELSE TopOfHour(now_init) + HourSeconds
    ELSE None

\* lines 745-756, 728-731
InitialState(n, now_init) ==
    [ session_active       |-> FALSE,
      movement_on          |-> FALSE,
      session_start_ts     |-> None,
      cat_seen             |-> FALSE,
      close_start_ts       |-> None,
      local_close_complete |-> FALSE,
      waiting_for_peer     |-> FALSE,
      peer_wait_start_ts   |-> None,
      current_hour         |-> HourOf(now_init),
      cycles_this_hour     |-> 0,
      next_session_time    |-> InitialNextSessionTime(n, now_init),
      last_infer_time      |-> 0,
      last_distance_score  |-> None,
      now_ts               |-> now_init ]

----------------------------------------------------------------------------
(* Session helpers, as functions of the node's globals *)

\* The start of an episode keeping the session fields of the episode before.
start_session_keeps_fields(s, t) ==
    [s EXCEPT !.session_active = TRUE,
              !.movement_on = TRUE,
              !.session_start_ts = t]

\* lines 769-777 (the call of movement_sequence_start is in the actions)
start_session(s, t) ==
    [s EXCEPT !.session_active = TRUE,
              !.movement_on = TRUE,
              !.session_start_ts = t,
              !.cat_seen = FALSE,
              !.close_start_ts = None,
              !.local_close_complete = FALSE]

\* lines 781-787: the globals after stop_session (the call of
\* movement_sequence_stop is StopSequence below)
stop_session(s) ==
    [s EXCEPT !.movement_on = FALSE, !.session_active = FALSE]

\* lines 790-794
schedule_next_hour(s, t) ==
    [s EXCEPT !.next_session_time = TopOfHour(t) + HourSeconds]

\* handle_close_logic without the else branch that forgets the streak.
handle_close_logic_keeps_streak(s, t) ==
    IF s.last_distance_score # None /\ s.last_distance_score > CloseThreshold
    THEN IF s.close_start_ts = None
         THEN [s EXCEPT !.close_start_ts = t]
         ELSE IF t - s.close_start_ts >= CloseHoldSeconds
              THEN [s EXCEPT !.local_close_complete = TRUE]
              ELSE s
    ELSE s

\* lines 797-805
handle_close_logic(s, t) ==
    IF s.last_distance_score # None /\ s.last_distance_score > CloseThreshold
    THEN IF s.close_start_ts = None
         THEN [s EXCEPT !.close_start_ts = t]
         ELSE IF t - s.close_start_ts >= CloseHoldSeconds
              THEN [s EXCEPT !.local_close_complete = TRUE]
              ELSE s
    ELSE [s EXCEPT !.close_start_ts = None]

\* is_idle_now without the test of waiting_for_peer.
is_idle_now_unless_active(s) ==
    (~s.session_active) /\ (~s.movement_on)

\* lines 808-809
is_idle_now(s) ==
    (~s.session_active) /\ (~s.waiting_for_peer) /\ (~s.movement_on)

----------------------------------------------------------------------------
(* SpeedControl *)

\* speed_mult is a fraction <<num, den>>; line 119 sets 15.0
DefaultSpeed == <<15, 1>>

\* the speeds the operator sets with "speed <x>": 1.0 ("normal", line 110)
\* and the default
SpeedInputs == {<<1, 1>>, <<15, 1>>}

\* A float is a fraction <<num, den>> with den > 0, or NaN, the value of
\* float("nan"): every comparison with NaN is false in Python
NaN == <<0, 0>>
IsNaN(v) == v[2] = 0
FloatLess(a, b) == ~IsNaN(a) /\ ~IsNaN(b) /\ a[1] * b[2] < b[1] * a[2]
FloatLeq(a, b) == ~IsNaN(a) /\ ~IsNaN(b) /\ a[1] * b[2] <= b[1] * a[2]

RECURSIVE GCD(_, _)
GCD(a, b) == IF b = 0 THEN a ELSE GCD(b, a % b)

\* a fraction in lowest terms; the model leaves out the rounding of floats
Lowest(v) ==
    IF IsNaN(v) THEN v
    ELSE LET g == GCD(IF v[1] < 0 THEN -v[1] ELSE v[1], v[2])
         IN  <<v[1] \div g, v[2] \div g>>

\* lines 140-144: `if mult <= 0: return`
set_speed(v, mult) == IF FloatLeq(mult, <<0, 1>>) THEN v ELSE mult

\* lines 150-152: speed_mult *= 1.25
faster(v) == Lowest(<<v[1] * 5, v[2] * 4>>)

\* lines 154-158: speed_mult /= 1.25; if speed_mult < 0.05: speed_mult = 0.05
slower(v) ==
    LET w == Lowest(<<v[1] * 4, v[2] * 5>>)
    IN  IF FloatLess(w, <<1, 20>>) THEN <<1, 20>> ELSE w

\* what float(parts[1]) gives for the texts an operator can type after
\* "speed " (lines 300-305): -1, 0, nan, 0.01, 0.1, 1, 15
SpeedTexts ==
    {<<-1, 1>>, <<0, 1>>, NaN, <<1, 100>>, <<1, 10>>, <<1, 1>>, <<15, 1>>}

\* base_seconds / speed_mult in milliseconds (lines 164-172), rounded down
Scaled(base_ms, v) == (base_ms * v[2]) \div v[1]

\* Longest time, in ms, a worker needs from the start of its servo 2 move to
\* its exit when the event is set during the move: both random moves (lines
\* 602-603).  A move of `steps` steps lasts max(steps * step_delay, duration)
\* / speed_mult (lines 547-559), with the delay per step fixed when the move
\* starts; servo 2 sweeps at most S2_MAX - S2_MIN = 115 degrees in steps of
\* --step-deg 1.0 with --step-delay 0.04 (4.6 s), servo 3 at most 25 degrees
\* in --random-move-duration 2.0.
WorkerMovesMs(v) == Scaled(4600, v) + Scaled(2000, v)

\* Shortest time, in ms, of the three homing moves of movement_sequence_stop
\* (base_s2_home 2.5, base_s3_home 2.0, base_door_close 3.0; lines 131-133)
HomingMs(v) == Scaled(2500, v) + Scaled(2000, v) + Scaled(3000, v)

\* Time, in ms, of the four moves of dispense_treat_sequence (lines 135-138)
TreatMs(v) ==
    Scaled(3000, v) + Scaled(3000, v) + Scaled(2500, v) + Scaled(3000, v)

JoinTimeoutMs == 3000

\* A worker whose moves were started at speed w can still be in them when
\* movement_sequence_stop, run at speed v, returns.
CanOutlastStop(w, v) == WorkerMovesMs(w) > JoinTimeoutMs + HomingMs(v)

\* Seconds the main loop stays blocked in a motion sequence (start, stop,
\* dispense), on the grid of the clock: none at speeds where the longest
\* sequence is shorter than a clock step, else none or a whole step
BlockDurations(n) ==
    IF TreatMs(speed_mult[n]) < TimeStep * 1000
    THEN {0}
    ELSE {d \in {0, TimeStep} : clock + d <= deadline}

----------------------------------------------------------------------------
(* ServoRig *)

Servo == 1..4

\* lines 447-452
SERVO_LIMITS ==
    [sid \in Servo |-> CASE sid = 1 -> <<0, 180>>
                        [] sid = 2 -> <<45, 160>>
                        [] sid = 3 -> <<75, 130>>
                        [] sid = 4 -> <<50, 130>>]

\* lines 454-459
SERVO_REST ==
    [sid \in Servo |-> CASE sid = 1 -> 0
                        [] sid = 2 -> 45
                        [] sid = 3 -> 130
                        [] sid = 4 -> 50]

\* lines 461-471
DOOR_CLOSED == 50
DOOR_OPEN == 130
S3_REST == 130
S3_DEPLOY == 100
S3_SIDE_MIN == 75
S3_SIDE_MAX == 100
S2_REST == 45
S2_MIN == 45
S2_MAX == 160

\* --step-deg (line 83); the model runs with steps of 40 degrees
step_deg == 40

Min(a, b) == IF a < b THEN a ELSE b
Max(a, b) == IF a > b THEN a ELSE b
Abs(a) == IF a < 0 THEN -a ELSE a

\* A clamp with the lower limit only.
clamp_from_below(sid, a) == Max(SERVO_LIMITS[sid][1], a)

\* lines 474-476
clamp_for_servo(sid, a) ==
    Max(SERVO_LIMITS[sid][1], Min(SERVO_LIMITS[sid][2], a))

\* lines 547-549: the number of steps of a move over delta degrees
Steps(delta) == Max(1, Abs(delta) \div step_deg)

\* line 556: start + (delta * i / steps), in whole degrees (rounded towards
\* start)
StepAngle(start, delta, steps, i) ==
    IF delta >= 0
    THEN start + (delta * i) \div steps
    ELSE start - ((-delta) * i) \div steps

\* The threads that call the rig: the main loop (thread 0) and the worker
\* threads started by movement_sequence_start
Thread == 0..MaxRigWorkers

NoMove == [sid |-> 0, start |-> 0, delta |-> 0, steps |-> 0, i |-> 0]

\* A thread's calls still to make (calls), its move_smooth in progress (cur:
\* the locals sid, start, delta, steps and the loop index i of lines
\* 536-559), and its set_angle between the store of line 530 and the write of
\* line 533 (pend: <<sid, angle>>; asked: the angle the call was given).
\* alive: the thread runs (always, for the main loop).  seq: the sequence the
\* main loop called last.
IdleThread(alive) ==
    [calls |-> <<>>, cur |-> NoMove, pend |-> <<>>, asked |-> 0, alive |-> alive]

\* lines 490-526: current_angles = dict(SERVO_REST), every servo written
\* with its rest angle; tracked is the worker movement_thread refers to
ServoRig ==
    [current_angles |-> SERVO_REST,
     tracked |-> 0,
     seq |-> "none",
     thr |-> [t \in Thread |-> IdleThread(t = 0)]]

----------------------------------------------------------------------------
(* Motion sequences and the background worker thread *)

\* A worker thread (lines 596-609) is at one of
\*   "move2": rig.move_smooth(2, a2, ...)          line 602
\*   "move3": rig.move_smooth(3, a3, ...)          line 603
\*   "wait" : the 50 ms polling wait               lines 605-608
\* and carries the speed at which its moves were started (per_step, line 553).
\* movement_stop_event is tested at the loop head (line 598) and in the wait.
WorkerPc == {"move2", "move3", "wait"}

Worker(p, v) == [pc |-> p, v |-> v]

RemoveAt(w, i) == SubSeq(w, 1, i - 1) \o SubSeq(w, i + 1, Len(w))

\* movement_thread.join(timeout=3.0), line 626, of the thread started last,
\* and the homing moves after it: a thread in its polling wait sees the event
\* and exits; a thread inside a move finishes and exits, or it is still in its
\* moves when the stop sequence returns.  The possible worker lists after
\* the stop sequence, run at speed v.
JoinOutcomes(w, v) ==
    IF w = <<>> THEN {w}
    ELSE LET x == w[Len(w)]
         IN  IF x.pc # "wait" /\ CanOutlastStop(x.v, v)
             THEN {RemoveAt(w, Len(w)), w}
             ELSE {RemoveAt(w, Len(w))}

\* lines 580-612: clear the event, open the door, deploy, start the worker
movement_sequence_start(n) ==
    /\ movement_stop_event' = [movement_stop_event EXCEPT ![n] = FALSE]
    /\ workers' = [workers EXCEPT ![n] = Append(@, Worker("move2", speed_mult[n]))]
    /\ movement_thread' = [movement_thread EXCEPT ![n] = TRUE]

StartLog == <<"stop_event_clear", "door_open", "deploy", "thread_start">>

\* lines 615-631: set the event, join at most 3 s, forget the thread, home
movement_sequence_stop(n) ==
    /\ movement_stop_event' = [movement_stop_event EXCEPT ![n] = TRUE]
    /\ IF movement_thread[n]
       THEN \E w \in JoinOutcomes(workers[n], speed_mult[n]) :
               workers' = [workers EXCEPT ![n] = w]
       ELSE workers' = workers
    /\ movement_thread' = [movement_thread EXCEPT ![n] = FALSE]

StopLog == <<"stop_event_set", "join", "home">>

\* lines 783-784: stop_session runs the stop sequence if movement_on is set
StopSequence(n) ==
    IF st[n].movement_on
    THEN movement_sequence_stop(n)
    ELSE UNCHANGED <<movement_stop_event, movement_thread, workers>>

StopSessionLog(n) == IF st[n].movement_on THEN StopLog ELSE <<>>

\* lines 634-646
TreatLog == <<"treat">>

MotionUnchanged == UNCHANGED <<movement_stop_event, movement_thread, workers>>

SpeedUnchanged == UNCHANGED speed_mult

----------------------------------------------------------------------------
(* PeerLink *)

\* lines 249-260: dropped when bt_ser is None, else written and flushed.  A
\* written line reaches the peer's reader thread, which puts it on the peer's
\* message_queue (lines 226-235), or it is lost on the way.
send_ping(n, message) ==
    IF bt_ser[n] /\ pc[Peer(n)] # "off"
    THEN \E delivered \in BOOLEAN :
            message_queue' =
                IF delivered
                THEN [message_queue EXCEPT ![Peer(n)] = Append(@, message)]
                ELSE message_queue
    ELSE message_queue' = message_queue

SendLog(n, message) ==
    <<IF message = "PI1_DONE" THEN "send_PI1_DONE" ELSE "send_PI2_DONE",
      IF bt_ser[n] THEN "written" ELSE "not_connected">>

\* The link before the reader thread's first step (lines 203-204, 208-211):
\*   pc     where the reader thread is: "exists" (line 213), "open" (221),
\*          "read" (226), "except" (237), "close" (240-241), "none" (244)
\*   port   the serial.Serial bt_ser refers to: "open", "broken" (a read or
\*          write of it raises), "closed"; of no meaning while bt_ser is None
\*   dev    /dev/rfcomm0 exists
\*   faulty opening and reading the device fail
\*   rx     lines the peer wrote that the reader has not read yet
\*   tx     lines written to the device that the peer has not read yet
\*   send   the call of send_ping in progress: "idle", "write" (past the
\*          test of line 251), or "raised" (an exception left send_ping)
\*   msg    the message of the call; result: how the last call ended
\*   failed an open or a read has raised
PeerLink ==
    [pc |-> "exists", port |-> "closed", dev |-> FALSE, faulty |-> FALSE,
     rx |-> <<>>, tx |-> <<>>, send |-> "idle", msg |-> "", result |-> "",
     failed |-> FALSE]

----------------------------------------------------------------------------
(* The main loop, lines 819-995 *)

\* Two main loops share nothing but the queues: a loop drains its own queue
\* first and writes to the peer's last.  A node steps while its peer is between
\* iterations or between its drain and the rest of its iteration.
CanStep(n) == pc[Peer(n)] \in {"top", "sched", "off"}

Did(n, log) == ev' = [who |-> n, log |-> log]

Goto(n, where) == pc' = [pc EXCEPT ![n] = where]

\* The hour change moving the next start only when the Primary is idle.
HourChangeWhenIdle(n, s, now) ==
    IF HourOf(now) # s.current_hour
    THEN [s EXCEPT !.current_hour = HourOf(now),
                   !.cycles_this_hour = 0,
                   !.next_session_time =
                        IF n = "main" /\ ~s.session_active /\ ~s.waiting_for_peer
                        THEN TopOfHour(now) ELSE @]
    ELSE s

\* The hour change without the record of the hour observed.
HourChangeUnrecorded(n, s, now) ==
    IF HourOf(now) # s.current_hour
    THEN [s EXCEPT !.cycles_this_hour = 0,
                   !.next_session_time =
                        IF n = "main" THEN TopOfHour(now) ELSE @]
    ELSE s

\* lines 820-830: read the clocks; an hour change resets the quota
HourChange(n, s, now) ==
    IF HourOf(now) # s.current_hour
    THEN [s EXCEPT !.current_hour = HourOf(now),
                   !.cycles_this_hour = 0,
                   !.next_session_time =
                        IF n = "main" THEN TopOfHour(now) ELSE @]
    ELSE s

LoopTop(n) ==
    /\ pc[n] = "top"
    /\ CanStep(n)
    /\ st' = [st EXCEPT ![n] = HourChange(n, [@ EXCEPT !.now_ts = clock], clock)]
    /\ Goto(n, "msgs")
    /\ Did(n, IF HourOf(clock) # st[n].current_hour THEN <<"new_hour">> ELSE <<>>)
    /\ LET seen == n = "main" /\ HourOf(clock) # st[n].current_hour
       IN  hist' = [hist EXCEPT
                      !.hourSeenIdle = /\ seen
                                       /\ ~st[n].session_active
                                       /\ ~st[n].waiting_for_peer,
                      !.starts = IF seen THEN 0 ELSE @,
                      !.hourTreats = IF seen THEN 0 ELSE @,
                      !.answered = IF n = "main" THEN "no" ELSE @]
    /\ MotionUnchanged
    /\ UNCHANGED <<link, rig, clock, deadline, speed_mult, message_queue, bt_ser>>

Draining(n, msg) ==
    /\ pc[n] = "msgs"
    /\ CanStep(n)
    /\ message_queue[n] # <<>>
    /\ Head(message_queue[n]) = msg

Pop(n) == message_queue' = [message_queue EXCEPT ![n] = Tail(@)]

\* MANUAL_START accepted without the test of the quota.
ManualStartAcceptedAnyCount(n, s) ==
    /\ n = "main"
    /\ ~s.session_active
    /\ ~s.waiting_for_peer

\* lines 839-844
ManualStartAccepted(n, s) ==
    /\ n = "main"
    /\ ~s.session_active
    /\ ~s.waiting_for_peer
    /\ s.cycles_this_hour < max_cycles_per_hour

HandleManualStart(n) ==
    /\ Draining(n, "MANUAL_START")
    /\ Pop(n)
    /\ IF ManualStartAccepted(n, st[n])
       THEN /\ st' = [st EXCEPT ![n].next_session_time = st[n].now_ts]
            /\ Did(n, <<"manual_start_scheduled">>)
            /\ hist' = [hist EXCEPT !.accepted = TRUE]
       ELSE /\ st' = st
            /\ Did(n, <<"manual_start_ignored">>)
            /\ hist' = hist
    /\ MotionUnchanged
    /\ UNCHANGED <<link, rig, clock, deadline, speed_mult, pc, bt_ser>>

\* lines 846-853
ManualTreatAccepted(n, s) ==
    /\ n = "main"
    /\ is_idle_now(s)

HandleManualTreat(n) ==
    /\ Draining(n, "MANUAL_TREAT")
    /\ Pop(n)
    /\ IF ManualTreatAccepted(n, st[n])
       THEN /\ \E d \in BlockDurations(n) : clock' = clock + d
            /\ Did(n, <<"manual_treat">> \o TreatLog)
       ELSE /\ clock' = clock
            /\ Did(n, <<"manual_treat_rejected">>)
    /\ st' = st
    /\ MotionUnchanged
    /\ UNCHANGED <<link, rig, deadline, speed_mult, pc, bt_ser, hist>>

\* PI1_DONE handled without the test of session_active.
PI1AcceptedAlways(n, s) == TRUE

\* lines 855-858
PI1Accepted(n, s) == ~s.session_active

HandlePI1(n) ==
    /\ Draining(n, "PI1_DONE")
    /\ n = "secondary"
    /\ Pop(n)
    /\ IF PI1Accepted(n, st[n])
       THEN /\ st' = [st EXCEPT ![n] = start_session(@, clock)]
            /\ movement_sequence_start(n)
            /\ \E d \in BlockDurations(n) : clock' = clock + d
            /\ Did(n, <<"pi1_accepted">> \o StartLog)
            /\ hist' = [hist EXCEPT !.signal[n] = FALSE,
                                    !.stale[n] = st[n].cat_seen \/ st[n].close_start_ts # None]
       ELSE /\ st' = st
            /\ MotionUnchanged
            /\ clock' = clock
            /\ Did(n, <<"pi1_discarded">>)
            /\ hist' = hist
    /\ UNCHANGED <<link, rig, deadline, speed_mult, pc, bt_ser>>

\* PI2_DONE handled without the test of waiting_for_peer.
PI2AcceptedAlways(n, s) == TRUE

\* lines 881-887
PeerTimedOut(n, s) ==
    /\ n = "main"
    /\ s.waiting_for_peer
    /\ s.peer_wait_start_ts # None
    /\ s.now_ts - s.peer_wait_start_ts > peer_timeout

\* PI2_DONE accepted whenever no episode runs, waiting or not.
PI2AcceptedOutsideEpisode(n, s) == ~s.session_active

\* PI2_DONE accepted only while the peer timeout has not elapsed.
PI2AcceptedInTime(n, s) == s.waiting_for_peer /\ ~PeerTimedOut(n, s)

\* lines 860-873
PI2Accepted(n, s) == s.waiting_for_peer

\* The PI2_DONE branch without the pause at the quota.
AfterPI2NoPause(s) ==
    [s EXCEPT !.waiting_for_peer = FALSE,
              !.peer_wait_start_ts = None,
              !.cycles_this_hour = @ + 1,
              !.next_session_time = s.now_ts]

AfterPI2(s) ==
    LET c == s.cycles_this_hour + 1
    IN  [s EXCEPT !.waiting_for_peer = FALSE,
                  !.peer_wait_start_ts = None,
                  !.cycles_this_hour = c,
                  !.next_session_time =
                       IF c >= max_cycles_per_hour THEN None ELSE s.now_ts]

HandlePI2(n) ==
    /\ Draining(n, "PI2_DONE")
    /\ n = "main"
    /\ Pop(n)
    /\ IF PI2Accepted(n, st[n])
       THEN /\ st' = [st EXCEPT ![n] = AfterPI2(@)]
            /\ \E d \in BlockDurations(n) : clock' = clock + d
            /\ Did(n, <<"pi2_accepted">> \o TreatLog)
            /\ hist' = [hist EXCEPT !.peerTreats = @ + 1, !.hourTreats = @ + 1,
                                    !.answered = IF PeerTimedOut(n, st[n])
                                                 THEN "late" ELSE "yes"]
       ELSE /\ st' = st
            /\ clock' = clock
            /\ Did(n, <<"pi2_discarded">>)
            /\ hist' = hist
    /\ MotionUnchanged
    /\ UNCHANGED <<link, rig, deadline, speed_mult, pc, bt_ser>>

\* lines 839-860: a message that matches no branch of the if/elif chain
Unmatched(n, msg) ==
    /\ msg \notin Commands
    /\ ~(msg = "PI1_DONE" /\ n = "secondary")
    /\ ~(msg = "PI2_DONE" /\ n = "main")

HandleOther(n) ==
    /\ pc[n] = "msgs"
    /\ CanStep(n)
    /\ message_queue[n] # <<>>
    /\ Unmatched(n, Head(message_queue[n]))
    /\ Pop(n)
    /\ Did(n, <<"unmatched">>)
    /\ MotionUnchanged
    /\ UNCHANGED <<link, rig, clock, deadline, speed_mult, pc, st, bt_ser, hist>>

\* lines 833-837: queue.Empty ends the drain
DrainDone(n) ==
    /\ pc[n] = "msgs"
    /\ CanStep(n)
    /\ message_queue[n] = <<>>
    /\ Goto(n, "sched")
    /\ Did(n, <<>>)
    /\ MotionUnchanged
    /\ UNCHANGED <<link, rig, clock, deadline, speed_mult, st, message_queue, bt_ser, hist>>

\* lines 875-879
ScheduledStartDue(n, s) ==
    /\ n = "main"
    /\ ~s.session_active
    /\ ~s.waiting_for_peer
    /\ s.next_session_time # None
    /\ s.now_ts >= s.next_session_time
    /\ s.cycles_this_hour < max_cycles_per_hour

ScheduledStart(n) ==
    /\ pc[n] = "sched"
    /\ CanStep(n)
    /\ IF ScheduledStartDue(n, st[n])
       THEN /\ st' = [st EXCEPT ![n] = start_session(@, clock)]
            /\ movement_sequence_start(n)
            /\ \E d \in BlockDurations(n) : clock' = clock + d
            /\ Did(n, <<"scheduled_start">> \o StartLog)
       ELSE /\ st' = st
            /\ MotionUnchanged
            /\ clock' = clock
            /\ Did(n, <<>>)
    /\ Goto(n, "timeout")
    /\ hist' = [hist EXCEPT !.accepted = FALSE,
                            !.hourSeenIdle = FALSE,
                            !.starts = IF ScheduledStartDue(n, st[n]) THEN @ + 1 ELSE @,
                            !.signal[n] = IF ScheduledStartDue(n, st[n]) THEN FALSE ELSE @,
                            !.stale[n] = IF ScheduledStartDue(n, st[n])
                                         THEN st[n].cat_seen \/ st[n].close_start_ts # None
                                         ELSE @]
    /\ UNCHANGED <<link, rig, deadline, speed_mult, message_queue, bt_ser>>

PeerTimeoutCheck(n) ==
    /\ pc[n] = "timeout"
    /\ CanStep(n)
    /\ IF PeerTimedOut(n, st[n])
       THEN /\ st' = [st EXCEPT ![n] =
                        schedule_next_hour([@ EXCEPT !.waiting_for_peer = FALSE,
                                                     !.peer_wait_start_ts = None],
                                           clock)]
            /\ Did(n, <<"peer_timeout">>)
       ELSE /\ st' = st
            /\ Did(n, <<>>)
    /\ Goto(n, "infer")
    /\ MotionUnchanged
    /\ UNCHANGED <<link, rig, clock, deadline, speed_mult, message_queue, bt_ser, hist>>

\* lines 911-939: the detector runs only in a session, every infer_interval
RunInfer(s) ==
    s.session_active /\ (s.now_ts - s.last_infer_time >= infer_interval)

Inference(n) ==
    /\ pc[n] = "infer"
    /\ CanStep(n)
    /\ IF RunInfer(st[n])
       THEN \E det \in Detections :
               /\ st' = [st EXCEPT ![n].last_infer_time = st[n].now_ts,
                                   ![n].last_distance_score = det]
               /\ Did(n, <<"infer">>)
               /\ hist' = [hist EXCEPT !.signal[n] = @ \/ det # None]
       ELSE /\ st' = st
            /\ Did(n, <<>>)
            /\ hist' = hist
    /\ Goto(n, "rules")
    /\ MotionUnchanged
    /\ UNCHANGED <<link, rig, clock, deadline, speed_mult, message_queue, bt_ser>>

\* The session rules with the success branch testing cat_seen where the code
\* tests local_close_complete.
RuleBranchSeen(s, t) ==
    IF (~s.cat_seen) /\ (t - s.session_start_ts >= NoSignalSeconds)
    THEN "no_signal"
    ELSE IF s.cat_seen /\ (~s.local_close_complete)
            /\ (t - s.session_start_ts >= NoCloseSeconds)
         THEN "no_close"
         ELSE IF s.cat_seen THEN "success" ELSE "continue"

\* The session rules with the two time limits tested by > where the code
\* tests by >=.
RuleBranchStrict(s, t) ==
    IF (~s.cat_seen) /\ (t - s.session_start_ts > NoSignalSeconds)
    THEN "no_signal"
    ELSE IF s.cat_seen /\ (~s.local_close_complete)
            /\ (t - s.session_start_ts > NoCloseSeconds)
         THEN "no_close"
         ELSE IF s.local_close_complete THEN "success" ELSE "continue"

\* The session rules without the limit of NoCloseSeconds.
RuleBranchNoLimit(s, t) ==
    IF (~s.cat_seen) /\ (t - s.session_start_ts >= NoSignalSeconds)
    THEN "no_signal"
    ELSE IF s.local_close_complete THEN "success" ELSE "continue"

\* lines 942-971: which branch of the session rules is taken, given the
\* globals after cat_seen and handle_close_logic were updated
RuleBranch(s, t) ==
    IF (~s.cat_seen) /\ (t - s.session_start_ts >= NoSignalSeconds)
    THEN "no_signal"
    ELSE IF s.cat_seen /\ (~s.local_close_complete)
            /\ (t - s.session_start_ts >= NoCloseSeconds)
         THEN "no_close"
         ELSE IF s.local_close_complete THEN "success" ELSE "continue"

\* lines 943-946
AfterSensing(s, t) ==
    handle_close_logic(
        [s EXCEPT !.cat_seen = IF s.last_distance_score # None THEN TRUE ELSE @], t)

\* The success branch without the record of the wait's start time.
AfterSuccessUnstamped(n, s, t) ==
    LET r == [stop_session(s) EXCEPT !.local_close_complete = FALSE,
                                     !.cat_seen = FALSE]
    IN  IF n = "main" THEN [r EXCEPT !.waiting_for_peer = TRUE] ELSE r

\* The success branch with the Primary waiting only when the link is up.
AfterSuccessIfConnected(n, s, t) ==
    LET r == [stop_session(s) EXCEPT !.local_close_complete = FALSE,
                                     !.cat_seen = FALSE]
    IN  IF n = "main" /\ bt_ser[n]
        THEN [r EXCEPT !.waiting_for_peer = TRUE, !.peer_wait_start_ts = t]
        ELSE r

\* The success branch with either role waiting for its peer.
AfterSuccessAnyRole(n, s, t) ==
    [stop_session(s) EXCEPT !.local_close_complete = FALSE,
                            !.cat_seen = FALSE,
                            !.waiting_for_peer = TRUE,
                            !.peer_wait_start_ts = t]

\* lines 960-968; t is the time after the stop sequence
AfterSuccess(n, s, t) ==
    LET r == [stop_session(s) EXCEPT !.local_close_complete = FALSE,
                                     !.cat_seen = FALSE]
    IN  IF n = "main"
        THEN [r EXCEPT !.waiting_for_peer = TRUE, !.peer_wait_start_ts = t]
        ELSE r

\* lines 950-952 and 956-958
AfterFailure(n, s, t) ==
    IF n = "main" THEN schedule_next_hour(stop_session(s), t) ELSE stop_session(s)

\* Both roles sending the Primary's token.
SuccessMessageSame(n) == "PI1_DONE"

\* lines 969 and 971
SuccessMessage(n) == IF n = "main" THEN "PI1_DONE" ELSE "PI2_DONE"

SessionRules(n) ==
    /\ pc[n] = "rules"
    /\ CanStep(n)
    /\ Goto(n, "top")
    /\ IF ~st[n].session_active
       THEN /\ st' = st
            /\ Did(n, <<>>)
            /\ MotionUnchanged
            /\ UNCHANGED <<clock, message_queue, hist>>
       ELSE LET s == AfterSensing(st[n], clock)
                b == RuleBranch(s, clock)
            IN  CASE b = "continue" ->
                       /\ st' = [st EXCEPT ![n] = s]
                       /\ Did(n, <<>>)
                       /\ MotionUnchanged
                       /\ UNCHANGED <<clock, message_queue, hist>>
                  [] b \in {"no_signal", "no_close"} ->
                       /\ StopSequence(n)
                       /\ \E d \in BlockDurations(n) :
                             /\ clock' = clock + d
                             /\ st' = [st EXCEPT ![n] = AfterFailure(n, s, clock + d)]
                       /\ Did(n, <<b>> \o StopSessionLog(n))
                       /\ UNCHANGED <<message_queue, hist>>
                  [] b = "success" ->
                       /\ StopSequence(n)
                       /\ \E d \in BlockDurations(n) :
                             /\ clock' = clock + d
                             /\ st' = [st EXCEPT ![n] = AfterSuccess(n, s, clock + d)]
                       /\ send_ping(n, SuccessMessage(n))
                       /\ Did(n, <<b>> \o StopSessionLog(n) \o SendLog(n, SuccessMessage(n)))
                       /\ hist' = IF n = "main"
                                  THEN [hist EXCEPT
                                          !.stage1 = s.local_close_complete /\ bt_ser[n],
                                          !.stage2 = FALSE,
                                          !.peerTreats = 0]
                                  ELSE [hist EXCEPT
                                          !.stage2 = @ \/ (s.local_close_complete /\ bt_ser[n])]
    /\ UNCHANGED <<link, rig, deadline, speed_mult, bt_ser>>

----------------------------------------------------------------------------
(* What happens around the main loops *)

AllTop == \A n \in Node : pc[n] \in {"top", "off"}

EnvUnchanged == UNCHANGED <<link, rig, deadline, pc, st, hist>>

\* lines 300-305: "speed <x>" on the operator's terminal
SpeedCommand(n, x) ==
    /\ AllTop
    /\ speed_mult[n] # x
    /\ speed_mult' = [speed_mult EXCEPT ![n] = set_speed(@, x)]
    /\ Did("operator", <<>>)
    /\ MotionUnchanged
    /\ EnvUnchanged
    /\ UNCHANGED <<clock, message_queue, bt_ser>>

\* lines 306-308: "faster" on the operator's terminal
Faster(n) ==
    /\ AllTop
    /\ faster(speed_mult[n])[1] <= MaxSpeedTerm
    /\ speed_mult' = [speed_mult EXCEPT ![n] = faster(@)]
    /\ Did("operator", <<"faster">>)
    /\ MotionUnchanged
    /\ EnvUnchanged
    /\ UNCHANGED <<clock, message_queue, bt_ser>>

\* lines 309-311: "slower" on the operator's terminal
Slower(n) ==
    /\ AllTop
    /\ slower(speed_mult[n])[2] <= MaxSpeedTerm
    /\ speed_mult' = [speed_mult EXCEPT ![n] = slower(@)]
    /\ Did("operator", <<"slower">>)
    /\ MotionUnchanged
    /\ EnvUnchanged
    /\ UNCHANGED <<clock, message_queue, bt_ser>>

\* time passes
Advance ==
    /\ AllTop
    /\ clock + TimeStep <= deadline
    /\ clock' = clock + TimeStep
    /\ Did("clock", <<>>)
    /\ MotionUnchanged
    /\ EnvUnchanged
    /\ SpeedUnchanged
    /\ UNCHANGED <<message_queue, bt_ser>>

\* lines 284-299 and 409-414: the operator's commands go on the node's queue
OperatorCommand(n, c) ==
    /\ AllTop
    /\ Len(message_queue[n]) < MaxQueue
    /\ message_queue' = [message_queue EXCEPT ![n] = Append(@, c)]
    /\ Did("operator", <<>>)
    /\ MotionUnchanged
    /\ EnvUnchanged
    /\ SpeedUnchanged
    /\ UNCHANGED <<clock, bt_ser>>

\* line 221: the reader thread opened /dev/rfcomm0
BtOpen(n) ==
    /\ AllTop
    /\ ~bt_ser[n]
    /\ bt_ser' = [bt_ser EXCEPT ![n] = TRUE]
    /\ Did("link", <<>>)
    /\ MotionUnchanged
    /\ EnvUnchanged
    /\ SpeedUnchanged
    /\ UNCHANGED <<clock, message_queue>>

\* lines 237-246: a serial error closes the port and sets bt_ser to None
BtError(n) ==
    /\ AllTop
    /\ bt_ser[n]
    /\ bt_ser' = [bt_ser EXCEPT ![n] = FALSE]
    /\ Did("link", <<>>)
    /\ MotionUnchanged
    /\ EnvUnchanged
    /\ SpeedUnchanged
    /\ UNCHANGED <<clock, message_queue>>

\* lines 226-235: the reader thread received a line from a peer that is not
\* part of the model, and put it on the queue
PeerMessage(n, msg) ==
    /\ AllTop
    /\ pc[Peer(n)] = "off"
    /\ bt_ser[n]
    /\ Len(message_queue[n]) < MaxQueue
    /\ message_queue' = [message_queue EXCEPT ![n] = Append(@, msg)]
    /\ Did("link", <<>>)
    /\ MotionUnchanged
    /\ EnvUnchanged
    /\ SpeedUnchanged
    /\ UNCHANGED <<clock, bt_ser>>

\* lines 231-235 and 296-299: between two iterations the reader thread and
\* the operator's terminal put the lines of q on the empty queue, in order
Arrivals(n, q) ==
    /\ AllTop
    /\ pc[Peer(n)] = "off"
    /\ bt_ser[n]
    /\ message_queue[n] = <<>>
    /\ message_queue' = [message_queue EXCEPT ![n] = q]
    /\ Did("link", <<>>)
    /\ MotionUnchanged
    /\ EnvUnchanged
    /\ SpeedUnchanged
    /\ UNCHANGED <<clock, bt_ser>>

\* lines 598-609: one step of worker thread i of node n
WorkerNext(x, stopped, v) ==
    CASE x.pc = "move2" -> {Worker("move3", v)}
      [] x.pc = "move3" -> IF stopped THEN {} ELSE {Worker("wait", v)}
      [] x.pc = "wait"  -> IF stopped THEN {} ELSE {Worker("move2", v)}

WorkerStep(n, i) ==
    /\ AllTop
    /\ i \in 1..Len(workers[n])
    /\ LET q == WorkerNext(workers[n][i], movement_stop_event[n], speed_mult[n])
       IN  workers' = [workers EXCEPT ![n] =
                          IF q = {} THEN RemoveAt(@, i)
                          ELSE [@ EXCEPT ![i] = CHOOSE x \in q : TRUE]]
    /\ Did("worker", <<>>)
    /\ EnvUnchanged
    /\ UNCHANGED <<clock, message_queue, bt_ser, movement_stop_event,
                   movement_thread, speed_mult>>

----------------------------------------------------------------------------
(* Specification *)

InitWith(running, times, horizon) ==
    /\ clock \in times
    /\ deadline = clock + horizon
    /\ pc = [n \in Node |-> IF n \in running THEN "top" ELSE "off"]
    /\ st = [n \in Node |-> InitialState(n, clock)]
    /\ message_queue = [n \in Node |-> <<>>]
    /\ bt_ser = [n \in Node |-> FALSE]
    /\ movement_stop_event = [n \in Node |-> FALSE]
    /\ movement_thread = [n \in Node |-> FALSE]
    /\ workers = [n \in Node |-> <<>>]
    /\ speed_mult = [n \in Node |-> DefaultSpeed]
    /\ link = PeerLink
    /\ rig = ServoRig
    /\ ev = [who |-> "init", log |-> <<>>]
    /\ hist = [stage1 |-> FALSE, stage2 |-> FALSE, peerTreats |-> 0,
               accepted |-> FALSE, hourSeenIdle |-> FALSE,
               starts |-> 0, hourTreats |-> 0,
               signal |-> [n \in Node |-> FALSE],
               stale |-> [n \in Node |-> FALSE],
               answered |-> "no"]

Tick(n) ==
    \/ LoopTop(n)
    \/ HandleManualStart(n)
    \/ HandleManualTreat(n)
    \/ HandlePI1(n)
    \/ HandlePI2(n)
    \/ DrainDone(n)
    \/ ScheduledStart(n)
    \/ PeerTimeoutCheck(n)
    \/ Inference(n)
    \/ SessionRules(n)

Running == {n \in Node : pc[n] # "off"}

Around ==
    \/ Advance
    \/ \E n \in Running : BtOpen(n)
    \/ \E n \in Running, i \in 1..MaxWorkers : WorkerStep(n, i)

\* The two-node system: both processes run; the operator is at the Primary.
Init == InitWith(Node, {AtStartHour}, Horizon)

Next ==
    \/ \E n \in Node : Tick(n)
    \/ Around
    \/ \E n \in Node : BtError(n)
    \/ \E c \in Commands : OperatorCommand("main", c)

Spec == Init /\ [][Next]_vars

\* One node, of either role, with any peer at the other end of the link.
InitNode == \E r \in Node : InitWith({r}, InitTimes, HorizonNode)

NextNode ==
    \/ \E n \in Running : Tick(n)
    \/ \E n \in Running : HandleOther(n)
    \/ Around
    \/ \E n \in Running : BtError(n)
    \/ \E n \in Running, c \in Commands : OperatorCommand(n, c)
    \/ \E n \in Running, msg \in PeerTokens : PeerMessage(n, msg)

SpecNode == InitNode /\ [][NextNode]_vars

\* One node, of either role, through whole episodes: no operator, and a peer
\* that sends the token the node waits for.
InitEpisode == \E r \in Node : InitWith({r}, {AtStartHour}, HorizonEpisode)

NextEpisode ==
    \/ \E n \in Running : Tick(n)
    \/ Around
    \/ \E n \in Running : PeerMessage(n, SuccessMessage(Peer(n)))

SpecEpisode == InitEpisode /\ [][NextEpisode]_vars

\* The Primary alone, with an operator who also changes the speed.
InitMotion == InitWith({"main"}, {AtStartHour}, HorizonMotion)

NextMotion ==
    \/ \E n \in Running : Tick(n)
    \/ Around
    \/ \E n \in Running, c \in Commands : OperatorCommand(n, c)
    \/ \E n \in Running : PeerMessage(n, SuccessMessage(Peer(n)))
    \/ \E n \in Running, x \in SpeedInputs : SpeedCommand(n, x)

SpecMotion == InitMotion /\ [][NextMotion]_vars

\* The Primary alone with a peer that may answer.  The main loop is a
\* `while True` that never blocks for good, and time passes: every step of
\* the loop is taken in the end, and the clock advances whenever it can.
InitWait == InitWith({"main"}, {AtStartHour}, HorizonWait)

LoopStep == \E n \in Running : Tick(n)

NextWait ==
    \/ LoopStep
    \/ Around
    \/ \E n \in Running, c \in Commands : OperatorCommand(n, c)
    \/ \E n \in Running : PeerMessage(n, SuccessMessage(Peer(n)))

SpecWait ==
    InitWait /\ [][NextWait]_vars /\ WF_vars(LoopStep) /\ SF_vars(Advance)

\* The Primary started more than an hour before the start hour of the day,
\* with no operator.
BeforeStartHour == {AtStartHour - HourSeconds - 2 * TimeStep,
                    AtStartHour - 2 * TimeStep}

InitEarly == InitWith({"main"}, BeforeStartHour, Horizon)

NextEarly ==
    \/ \E n \in Running : Tick(n)
    \/ \E n \in Running : HandleOther(n)
    \/ Around
    \/ \E n \in Running, msg \in PeerTokens : PeerMessage(n, msg)

SpecEarly == InitEarly /\ [][NextEarly]_vars

\* One node through whole episodes, with the main loop kept running (`while
\* True`, line 819) and time passing; the worker threads stay where they
\* started.
NextEnds ==
    \/ LoopStep
    \/ Advance
    \/ \E n \in Running : BtOpen(n)
    \/ \E n \in Running : PeerMessage(n, SuccessMessage(Peer(n)))

SpecEnds ==
    InitEpisode /\ [][NextEnds]_vars /\ WF_vars(LoopStep) /\ SF_vars(Advance)

\* One node, of either role, with no operator and a peer that sends any
\* line: the reader thread puts every non-empty line on the queue, whatever
\* its text (lines 231-235)
PeerLines == PeerTokens \cup Commands

InitPeerText == \E r \in Node : InitWith({r}, {AtStartHour}, HorizonNode)

NextPeerText ==
    \/ \E n \in Running : Tick(n)
    \/ \E n \in Running : HandleOther(n)
    \/ Around
    \/ \E n \in Running : BtError(n)
    \/ \E n \in Running, msg \in PeerLines : PeerMessage(n, msg)

SpecPeerText == InitPeerText /\ [][NextPeerText]_vars

\* The Primary with a queue that receives up to MaxBurst lines between two
\* iterations, across an hour boundary.
Bursts ==
    UNION {[1..k -> PeerTokens \cup Commands] : k \in 1..MaxBurst}

InitOrder == InitWith({"main"}, InitTimes, Horizon)

NextOrder ==
    \/ \E n \in Running : Tick(n)
    \/ \E n \in Running : HandleOther(n)
    \/ Around
    \/ \E n \in Running, q \in Bursts : Arrivals(n, q)

SpecOrder == InitOrder /\ [][NextOrder]_vars

\* The operator's speed commands alone, at the Primary.
InitSpeed == InitWith({"main"}, {AtStartHour}, 0)

NextSpeed ==
    \/ \E n \in Running, x \in SpeedTexts : SpeedCommand(n, x)
    \/ \E n \in Running : Faster(n)
    \/ \E n \in Running : Slower(n)

SpecSpeed == InitSpeed /\ [][NextSpeed]_vars

----------------------------------------------------------------------------
(* The Primary's link, line by line: the reader thread, the device, the    *)
(* peer at the other end, and the main loop's thread calling send_ping and *)
(* taking messages off the queue.                                          *)

LinkOnly ==
    UNCHANGED <<clock, deadline, pc, st, movement_stop_event, movement_thread,
                workers, speed_mult, rig, hist>>

\* what a step of the reader thread raises, or nothing: opening (line 221) a
\* device that is not there or fails, reading (line 226) from a port that
\* broke or a device that fails
Nothing == ""
OpenRaises == IF link.dev /\ ~link.faulty THEN Nothing ELSE "SerialException"
ReadRaises ==
    IF link.port = "broken" \/ link.faulty THEN "SerialException" ELSE Nothing

\* The reader thread ending when it has closed the port.
AfterFinallyOnce(p) ==
    CASE p = "except" -> "close"
      [] p = "close" -> "none"
      [] p = "none" -> "done"

\* lines 237-246 and 211: after the except clause the finally clause, then
\* the next round of `while True`
AfterFinally(p) ==
    CASE p = "except" -> "close"
      [] p = "close" -> "none"
      [] p = "none" -> "exists"

\* lines 213-219: no device; `continue` runs the finally clause
ReaderExists ==
    /\ link.pc = "exists"
    /\ link' = [link EXCEPT !.pc = IF link.dev THEN "open" ELSE "close"]
    /\ Did("reader", <<IF link.dev THEN "found" ELSE "waiting">>)
    /\ LinkOnly
    /\ UNCHANGED <<bt_ser, message_queue>>

\* lines 221-224
ReaderOpen ==
    /\ link.pc = "open"
    /\ IF OpenRaises = Nothing
       THEN /\ bt_ser' = [bt_ser EXCEPT !["main"] = TRUE]
            /\ link' = [link EXCEPT !.pc = "read", !.port = "open"]
            /\ Did("reader", <<"opened">>)
       ELSE /\ bt_ser' = bt_ser
            /\ link' = [link EXCEPT !.pc = "except", !.failed = TRUE]
            /\ Did("reader", <<"open_failed">>)
    /\ LinkOnly
    /\ UNCHANGED message_queue

\* lines 225-235: a read that raises, or a line read and put on the queue
ReaderRead ==
    /\ link.pc = "read"
    /\ IF ReadRaises # Nothing
       THEN /\ link' = [link EXCEPT !.pc = "except", !.failed = TRUE]
            /\ message_queue' = message_queue
            /\ Did("reader", <<"read_failed">>)
       ELSE /\ link.rx # <<>>
            /\ Len(message_queue["main"]) < MaxQueue
            /\ link' = [link EXCEPT !.rx = Tail(@)]
            /\ message_queue' = [message_queue EXCEPT !["main"] = Append(@, Head(link.rx))]
            /\ Did("reader", <<"put">>)
    /\ LinkOnly
    /\ UNCHANGED bt_ser

\* lines 237-238
ReaderExcept ==
    /\ link.pc = "except"
    /\ link' = [link EXCEPT !.pc = AfterFinally("except")]
    /\ Did("reader", <<"error_logged">>)
    /\ LinkOnly
    /\ UNCHANGED <<bt_ser, message_queue>>

\* lines 239-243: close the port if there is one
ReaderClose ==
    /\ link.pc = "close"
    /\ link' = [link EXCEPT !.pc = AfterFinally("close"),
                            !.port = IF bt_ser["main"] THEN "closed" ELSE @]
    /\ Did("reader", <<"closed">>)
    /\ LinkOnly
    /\ UNCHANGED <<bt_ser, message_queue>>

\* lines 244-245, then 211
ReaderNone ==
    /\ link.pc = "none"
    /\ bt_ser' = [bt_ser EXCEPT !["main"] = FALSE]
    /\ link' = [link EXCEPT !.pc = AfterFinally("none"), !.port = "closed"]
    /\ Did("reader", <<"none">>)
    /\ LinkOnly
    /\ UNCHANGED message_queue

Reader ==
    \/ ReaderExists
    \/ ReaderOpen
    \/ ReaderRead
    \/ ReaderExcept
    \/ ReaderClose
    \/ ReaderNone

\* /dev/rfcomm0 appears when the rfcomm connection is made, and disappears
\* with it: an open port of it is dead from then on, unread lines are gone
DeviceAppears ==
    /\ ~link.dev
    /\ link' = [link EXCEPT !.dev = TRUE]
    /\ Did("device", <<>>)
    /\ LinkOnly
    /\ UNCHANGED <<bt_ser, message_queue>>

DeviceDisappears ==
    /\ link.dev
    /\ link' = [link EXCEPT !.dev = FALSE,
                            !.port = IF @ = "open" THEN "broken" ELSE @,
                            !.rx = <<>>]
    /\ Did("device", <<>>)
    /\ LinkOnly
    /\ UNCHANGED <<bt_ser, message_queue>>

\* the device starts and stops failing
Fault(b) ==
    /\ link.faulty # b
    /\ link' = [link EXCEPT !.faulty = b]
    /\ Did("device", <<>>)
    /\ LinkOnly
    /\ UNCHANGED <<bt_ser, message_queue>>

\* the peer writes a line while the connection is there
PeerWrites(msg) ==
    /\ link.dev
    /\ Len(link.rx) < MaxQueue
    /\ link' = [link EXCEPT !.rx = Append(@, msg)]
    /\ Did("peer", <<>>)
    /\ LinkOnly
    /\ UNCHANGED <<bt_ser, message_queue>>

\* the peer reads a line the Primary wrote
PeerReads ==
    /\ link.tx # <<>>
    /\ link' = [link EXCEPT !.tx = Tail(@)]
    /\ Did("peer", <<>>)
    /\ LinkOnly
    /\ UNCHANGED <<bt_ser, message_queue>>

\* Only the serial library's exceptions caught.
CaughtIfSerial(exc) == exc = "SerialException"

\* line 259: `except Exception` catches whatever the write raises
Caught(exc) == exc \in {"SerialException", "AttributeError"}

\* lines 250-253: the main loop calls send_ping; bt_ser is None, or the call
\* goes on to the write
SendPingTest(msg) ==
    /\ link.send = "idle"
    /\ Len(link.tx) < MaxQueue
    /\ link' = IF bt_ser["main"]
               THEN [link EXCEPT !.send = "write", !.msg = msg, !.result = ""]
               ELSE [link EXCEPT !.result = "not_connected"]
    /\ Did("send", <<IF bt_ser["main"] THEN "connected" ELSE "not_connected">>)
    /\ LinkOnly
    /\ UNCHANGED <<bt_ser, message_queue>>

\* what bt_ser.write and flush (lines 256-257) can raise: bt_ser is None by
\* now (no attribute `write`), the port was closed, or it is dead; a dead
\* port may also take the bytes and lose them
WriteOutcomes ==
    IF ~bt_ser["main"] THEN {"AttributeError"}
    ELSE IF link.port = "closed" THEN {"SerialException"}
    ELSE IF link.port = "broken" THEN {"SerialException", "lost"}
    ELSE {"sent"}

\* lines 254-260
SendPingWrite ==
    /\ link.send = "write"
    /\ \E r \in WriteOutcomes :
          /\ link' = [link EXCEPT
                         !.send = IF r \in {"sent", "lost"} \/ Caught(r)
                                  THEN "idle" ELSE "raised",
                         !.msg = "",
                         !.result = r,
                         !.tx = IF r = "sent" THEN Append(@, link.msg) ELSE @]
          /\ Did("send", <<r>>)
    /\ LinkOnly
    /\ UNCHANGED <<bt_ser, message_queue>>

\* line 835: message_queue.get_nowait() in the main loop
QueueGet ==
    /\ message_queue["main"] # <<>>
    /\ Pop("main")
    /\ Did("main", <<"get">>)
    /\ LinkOnly
    /\ UNCHANGED <<bt_ser, link>>

InitLink == InitWith({"main"}, {AtStartHour}, 0)

NextLink ==
    \/ Reader
    \/ DeviceAppears
    \/ DeviceDisappears
    \/ \E b \in BOOLEAN : Fault(b)
    \/ \E msg \in PeerTokens : PeerWrites(msg)
    \/ PeerReads
    \/ \E msg \in {"PI1_DONE"} : SendPingTest(msg)
    \/ SendPingWrite
    \/ QueueGet

\* The reader is a daemon thread in a `while True` whose sleeps and reads
\* end (time.sleep(0.5), time.sleep(1), timeout=1), and the main loop's
\* thread goes on: each takes its next step in the end.
SpecLink ==
    /\ InitLink
    /\ [][NextLink]_vars
    /\ WF_vars(Reader)
    /\ WF_vars(SendPingWrite)
    /\ WF_vars(QueueGet)

----------------------------------------------------------------------------
(* The rig, write by write: the motion sequences of the Primary as the     *)
(* calls of rig.move_smooth they make, each call as its steps, by the main *)
(* loop's thread and the worker threads together.                          *)

Call(op, sid, target, dur) == [op |-> op, sid |-> sid, target |-> target, dur |-> dur]

\* base durations of the sequences are positive (lines 128-138)
Move(sid, target) == Call("move", sid, target, 1)

\* lines 593-594 and 610-611
StartCalls == <<Move(4, DOOR_OPEN), Move(3, S3_DEPLOY), Call("start", 0, 0, 0)>>

\* lines 625-631
StopCalls ==
    <<Call("join", 0, 0, 0), Move(2, S2_REST), Move(3, S3_REST), Move(4, DOOR_CLOSED)>>

\* lines 642-645
TreatCalls == <<Move(4, DOOR_OPEN), Move(1, 180), Move(1, 0), Move(4, DOOR_CLOSED)>>

\* lines 599-600: random.uniform over the ranges, at their ends
RandomS2 == {S2_MIN, S2_MAX}
RandomS3 == {S3_SIDE_MIN, S3_SIDE_MAX}

\* angles and durations a caller may pass to set_angle and move_smooth
AngleInputs == {-20, 200}
DurationInputs == {0, 1}

ThreadIdle(t) ==
    /\ rig.thr[t].calls = <<>>
    /\ rig.thr[t].cur = NoMove
    /\ rig.thr[t].pend = <<>>

\* lines 528-530: the rig once thread t has stored the angle; the write of
\* line 533 is ServoWrite
set_angle(r, t, sid, angle) ==
    [r EXCEPT !.current_angles[sid] = clamp_for_servo(sid, angle),
              !.thr[t].pend = <<sid, clamp_for_servo(sid, angle)>>,
              !.thr[t].asked = angle]

RigOnly ==
    UNCHANGED <<clock, deadline, pc, st, message_queue, bt_ser, workers,
                speed_mult, link, hist>>

\* the main loop's thread calls a sequence
RigCalls(calls, seq) ==
    /\ ThreadIdle(0)
    /\ rig' = [rig EXCEPT !.thr[0].calls = calls, !.seq = seq]
    /\ Did("rig", <<>>)
    /\ RigOnly

\* lines 589-591: movement_sequence_start, called while no worker is tracked
RigStart ==
    /\ ~movement_thread["main"]
    /\ \E w \in 1..MaxRigWorkers : ~rig.thr[w].alive
    /\ RigCalls(StartCalls, "start")
    /\ movement_stop_event' = [movement_stop_event EXCEPT !["main"] = FALSE]
    /\ UNCHANGED movement_thread

\* lines 622-624: movement_sequence_stop
RigStop ==
    /\ movement_thread["main"]
    /\ RigCalls(StopCalls, "stop")
    /\ movement_stop_event' = [movement_stop_event EXCEPT !["main"] = TRUE]
    /\ UNCHANGED movement_thread

\* lines 641-645: dispense_treat_sequence
RigTreat ==
    /\ ~movement_thread["main"]
    /\ RigCalls(TreatCalls, "treat")
    /\ UNCHANGED <<movement_stop_event, movement_thread>>

\* a call of rig.set_angle or rig.move_smooth with any arguments
RigSetAngle(sid, a) ==
    /\ RigCalls(<<Call("set", sid, a, 0)>>, "call")
    /\ UNCHANGED <<movement_stop_event, movement_thread>>

RigMoveSmooth(sid, a, dur) ==
    /\ RigCalls(<<Call("move", sid, a, dur)>>, "call")
    /\ UNCHANGED <<movement_stop_event, movement_thread>>

\* thread t is about to make its next call
NextCall(t, op) ==
    /\ rig.thr[t].pend = <<>>
    /\ rig.thr[t].cur = NoMove
    /\ rig.thr[t].calls # <<>>
    /\ Head(rig.thr[t].calls).op = op

Called(r, t) == [r EXCEPT !.thr[t].calls = Tail(@)]

\* lines 528-530
CallSetAngle(t) ==
    /\ NextCall(t, "set")
    /\ LET c == Head(rig.thr[t].calls)
       IN  rig' = set_angle(Called(rig, t), t, c.sid, c.target)
    /\ Did("rig", <<>>)
    /\ RigOnly
    /\ UNCHANGED <<movement_stop_event, movement_thread>>

\* lines 535-553: start and target are read, and the steps fixed, once
CallMoveSmooth(t) ==
    /\ NextCall(t, "move")
    /\ LET c == Head(rig.thr[t].calls)
           start == rig.current_angles[c.sid]
           target == clamp_for_servo(c.sid, c.target)
           delta == target - start
       IN  rig' = IF c.dur <= 0
                  THEN set_angle(Called(rig, t), t, c.sid, target)
                  ELSE [Called(rig, t) EXCEPT
                          !.thr[t].cur = [sid |-> c.sid, start |-> start,
                                          delta |-> delta, steps |-> Steps(delta),
                                          i |-> 1]]
    /\ Did("rig", <<>>)
    /\ RigOnly
    /\ UNCHANGED <<movement_stop_event, movement_thread>>

\* lines 555-559: one round of the loop of move_smooth
MoveStep(t) ==
    /\ rig.thr[t].pend = <<>>
    /\ rig.thr[t].cur # NoMove
    /\ LET m == rig.thr[t].cur
           r == set_angle(rig, t, m.sid, StepAngle(m.start, m.delta, m.steps, m.i))
       IN  rig' = [r EXCEPT !.thr[t].cur =
                               IF m.i = m.steps THEN NoMove ELSE [m EXCEPT !.i = @ + 1]]
    /\ Did("rig", <<>>)
    /\ RigOnly
    /\ UNCHANGED <<movement_stop_event, movement_thread>>

\* line 533: self.servos[sid].angle = angle, the angle being pend[2]
ServoWrite(t) ==
    /\ rig.thr[t].pend # <<>>
    /\ rig' = [rig EXCEPT !.thr[t].pend = <<>>, !.thr[t].asked = 0]
    /\ Did("rig", <<>>)
    /\ RigOnly
    /\ UNCHANGED <<movement_stop_event, movement_thread>>

\* lines 610-611: movement_thread = Thread(target=worker); start()
ThreadStart ==
    /\ NextCall(0, "start")
    /\ \E w \in 1..MaxRigWorkers :
          /\ ~rig.thr[w].alive
          /\ \A v \in 1..(w - 1) : rig.thr[v].alive
          /\ rig' = [Called(rig, 0) EXCEPT !.thr[w].alive = TRUE, !.tracked = w]
    /\ movement_thread' = [movement_thread EXCEPT !["main"] = TRUE]
    /\ Did("rig", <<>>)
    /\ RigOnly
    /\ UNCHANGED movement_stop_event

\* lines 625-627: join(timeout=3.0) returns when the tracked worker has
\* ended or 3 s have passed, and the thread is forgotten
Join ==
    /\ NextCall(0, "join")
    /\ rig' = [Called(rig, 0) EXCEPT !.tracked = 0]
    /\ movement_thread' = [movement_thread EXCEPT !["main"] = FALSE]
    /\ Did("rig", <<>>)
    /\ RigOnly
    /\ UNCHANGED movement_stop_event

\* lines 598-603 and 609: the head of the worker's loop
WorkerLoop(w) ==
    /\ rig.thr[w].alive
    /\ ThreadIdle(w)
    /\ IF movement_stop_event["main"]
       THEN rig' = [rig EXCEPT !.thr[w].alive = FALSE]
       ELSE \E a2 \in RandomS2, a3 \in RandomS3 :
               rig' = [rig EXCEPT !.thr[w].calls = <<Move(2, a2), Move(3, a3)>>]
    /\ Did("worker", <<>>)
    /\ RigOnly
    /\ UNCHANGED <<movement_stop_event, movement_thread>>

InitServo == InitWith({"main"}, {AtStartHour}, 0)

NextServo ==
    \/ RigStart
    \/ RigStop
    \/ RigTreat
    \/ \E sid \in Servo, a \in AngleInputs : RigSetAngle(sid, a)
    \/ \E sid \in Servo, a \in AngleInputs, dur \in DurationInputs :
          RigMoveSmooth(sid, a, dur)
    \/ \E t \in Thread : CallSetAngle(t)
    \/ \E t \in Thread : CallMoveSmooth(t)
    \/ \E t \in Thread : MoveStep(t)
    \/ \E t \in Thread : ServoWrite(t)
    \/ ThreadStart
    \/ Join
    \/ \E w \in 1..MaxRigWorkers : WorkerLoop(w)

SpecServo == InitServo /\ [][NextServo]_vars

----------------------------------------------------------------------------
(* Properties *)

Has(log, x) == \E i \in 1..Len(log) : log[i] = x
Count(log, x) == Cardinality({i \in 1..Len(log) : log[i] = x})

\* the last step ran the dispense sequence, and not for a MANUAL_TREAT
PeerDispense == Has(ev.log, "treat") /\ ~Has(ev.log, "manual_treat")

\* C1: in the two-node system a dispense that no MANUAL_TREAT caused happens
\* on the Primary only, and only after the Primary confirmed close contact,
\* entered its wait and wrote PI1_DONE, and after that the Secondary confirmed
\* close contact and wrote PI2_DONE; the dispense sequence runs once, and at
\* most one such dispense follows one entry into the wait.
C1_DispenseAfterBothStages ==
    /\ PeerDispense =>
          /\ ev.who = "main"
          /\ hist.stage1
          /\ hist.stage2
          /\ Count(ev.log, "treat") = 1
    /\ hist.peerTreats <= 1

\* the Primary has just dispensed upon PI2_DONE, in its second cycle
C1_Witness ==
    /\ PeerDispense
    /\ hist.peerTreats = 1
    /\ st["main"].cycles_this_hour = 2

\* the node is about to handle the message msg at the head of its queue
AboutToHandle(n, msg) ==
    /\ pc[n] = "msgs"
    /\ message_queue[n] # <<>>
    /\ Head(message_queue[n]) = msg

\* the node is about to evaluate the session rules of an episode, and they
\* will take branch b
AboutToEnd(n, b) ==
    /\ pc[n] = "rules"
    /\ st[n].session_active
    /\ RuleBranch(AfterSensing(st[n], clock), clock) = b

\* C2: when the Primary handles PI2_DONE while it waits for the peer, it
\* leaves the wait, runs the dispense sequence once, adds one to the cycle
\* counter, and sets the next start to the tick's time if the counter is
\* below the maximum and to None if not; when it handles PI2_DONE while it
\* does not wait, nothing is dispensed and no global changes.
C2_Stage2Processing ==
    [][AboutToHandle("main", "PI2_DONE") =>
         LET s == st["main"]
             s1 == st'["main"]
         IN  IF s.waiting_for_peer
             THEN /\ ~s1.waiting_for_peer
                  /\ ~s1.session_active
                  /\ Count(ev'.log, "treat") = 1
                  /\ s1.cycles_this_hour = s.cycles_this_hour + 1
                  /\ s1.next_session_time =
                        IF s1.cycles_this_hour < max_cycles_per_hour
                        THEN s.now_ts ELSE None
             ELSE /\ ~Has(ev'.log, "treat")
                  /\ st' = st
                  /\ UNCHANGED <<movement_stop_event, movement_thread, workers>>
      ]_vars

\* the Primary has just dispensed upon PI2_DONE and reached the quota
C2_Witness ==
    /\ ev.who = "main"
    /\ Has(ev.log, "pi2_accepted")
    /\ st["main"].cycles_this_hour = max_cycles_per_hour
    /\ st["main"].next_session_time = None

\* C3: when the Primary's episode ends in success, the stop sequence runs
\* (event set, thread joined and forgotten, homing), the Primary waits for
\* the peer with the wait's start time recorded, and send_ping is called
\* once, after the stop sequence, with PI1_DONE; with the link down nothing
\* is put on the peer's queue, and the Primary waits all the same.  PI1_DONE
\* is sent in no other step.
C3_PrimarySuccess ==
    [][/\ AboutToEnd("main", "success") =>
            LET s1 == st'["main"]
            IN  /\ ~s1.session_active
                /\ ~s1.movement_on
                /\ s1.waiting_for_peer
                /\ s1.peer_wait_start_ts = clock'
                /\ movement_stop_event'["main"]
                /\ ~movement_thread'["main"]
                /\ ev'.log = <<"success", "stop_event_set", "join", "home",
                               "send_PI1_DONE",
                               IF bt_ser["main"] THEN "written" ELSE "not_connected">>
                /\ message_queue'["secondary"] \in
                       {message_queue["secondary"],
                        Append(message_queue["secondary"], "PI1_DONE")}
                /\ ~bt_ser["main"] => message_queue' = message_queue
       /\ Has(ev'.log, "send_PI1_DONE") => AboutToEnd("main", "success")
      ]_vars

\* the Primary waits for the peer after a PI1_DONE that was dropped
C3_Witness ==
    /\ ev.who = "main"
    /\ Has(ev.log, "send_PI1_DONE")
    /\ Has(ev.log, "not_connected")
    /\ st["main"].waiting_for_peer
    /\ st["main"].peer_wait_start_ts = clock

\* C4: the Secondary calls send_ping with PI2_DONE once in the step that ends
\* an episode by close confirmation, after the stop sequence, and is idle
\* then; it sends nothing in a step that ends an episode by the 30 s or the
\* 120 s rule, and nothing in any other step.
C4_SecondarySendsOnce ==
    [][LET s == st["secondary"]
           s1 == st'["secondary"]
           sends == Count(ev'.log, "send_PI1_DONE") + Count(ev'.log, "send_PI2_DONE")
       IN  ev'.who = "secondary" =>
             IF s.session_active /\ ~s1.session_active
             THEN IF AfterSensing(s, clock).local_close_complete
                  THEN /\ ev'.log = <<"success", "stop_event_set", "join", "home",
                                      "send_PI2_DONE",
                                      IF bt_ser["secondary"] THEN "written"
                                      ELSE "not_connected">>
                       /\ ~s1.movement_on
                       /\ movement_stop_event'["secondary"]
                  ELSE /\ sends = 0
                       /\ Has(ev'.log, "no_signal") \/ Has(ev'.log, "no_close")
             ELSE sends = 0
      ]_vars

\* the Secondary has just ended an episode by close confirmation and written
\* PI2_DONE
C4_Witness ==
    /\ ev.who = "secondary"
    /\ Has(ev.log, "send_PI2_DONE")
    /\ Has(ev.log, "written")
    /\ ~st["secondary"].session_active

\* C5: the Secondary goes from idle to active exactly in the step that handles
\* PI1_DONE while it is idle: no other step starts an episode, that step
\* always does, and it stamps the start and starts the worker; PI1_DONE handled
\* while active is taken off the queue and changes nothing else.
C5_SecondaryStart ==
    [][LET s == st["secondary"]
           s1 == st'["secondary"]
       IN  /\ (~s.session_active /\ s1.session_active) =>
                 AboutToHandle("secondary", "PI1_DONE")
           /\ AboutToHandle("secondary", "PI1_DONE") =>
                 /\ message_queue'["secondary"] = Tail(message_queue["secondary"])
                 /\ IF ~s.session_active
                    THEN /\ s1.session_active
                         /\ s1.movement_on
                         /\ s1.session_start_ts = clock
                         /\ ~s1.cat_seen
                         /\ ~s1.local_close_complete
                         /\ Len(workers'["secondary"]) = Len(workers["secondary"]) + 1
                         /\ ~movement_stop_event'["secondary"]
                    ELSE /\ st' = st
                         /\ UNCHANGED <<movement_stop_event, movement_thread, workers>>
                         /\ ~Has(ev'.log, "thread_start")
      ]_vars

\* the Secondary, in an episode, has just discarded a PI1_DONE
C5_Witness ==
    /\ ev.who = "secondary"
    /\ ev.log = <<"pi1_discarded">>
    /\ st["secondary"].session_active
    /\ st["secondary"].cat_seen

\* C6: for both roles, when the session rules are evaluated in an episode
\* with no signal seen and 30 s or more since its start, or with a signal
\* seen, close contact not confirmed and 120 s or more since its start, the
\* episode ends in that step: the stop sequence runs (event set, thread
\* joined and forgotten, homing), the node is idle, nothing is sent; the
\* Primary sets the next start to the next hour boundary, the Secondary's
\* next start stays None; the cycle counter does not change.
C6_EpisodeFailures ==
    [][\A n \in Node :
         (pc[n] = "rules" /\ st[n].session_active) =>
            LET s == AfterSensing(st[n], clock)
                elapsed == clock - st[n].session_start_ts
                s1 == st'[n]
            IN  ((~s.cat_seen /\ elapsed >= NoSignalSeconds)
                   \/ (s.cat_seen /\ ~s.local_close_complete
                         /\ elapsed >= NoCloseSeconds)) =>
                  /\ ~s1.session_active
                  /\ ~s1.movement_on
                  /\ ~s1.waiting_for_peer
                  /\ movement_stop_event'[n]
                  /\ ~movement_thread'[n]
                  /\ Has(ev'.log, "stop_event_set") /\ Has(ev'.log, "home")
                  /\ ~Has(ev'.log, "send_PI1_DONE") /\ ~Has(ev'.log, "send_PI2_DONE")
                  /\ message_queue' = message_queue
                  /\ s1.cycles_this_hour = st[n].cycles_this_hour
                  /\ s1.next_session_time =
                        IF n = "main" THEN TopOfHour(clock') + HourSeconds ELSE None
      ]_vars

\* the Secondary has just ended an episode by the 120 s rule
C6_Witness ==
    /\ ev.who = "secondary"
    /\ Has(ev.log, "no_close")
    /\ ~st["secondary"].session_active
    /\ clock - st["secondary"].session_start_ts >= NoCloseSeconds

\* the Primary can still run the timeout check that ends its wait before the
\* clock of the model stops
WaitCanEnd ==
    /\ st["main"].waiting_for_peer
    /\ st["main"].peer_wait_start_ts # None
    /\ st["main"].peer_wait_start_ts + peer_timeout + TimeStep <= deadline

\* C7: the Primary's wait always has its start time recorded; when the
\* timeout check finds the wait longer than the peer timeout, the Primary
\* leaves the wait for idle in that step, with no dispense, the cycle counter
\* unchanged and the next start at the next hour boundary; and, the loop
\* running and time passing, every wait ends.
C7_WaitEnds ==
    /\ [](st["main"].waiting_for_peer => st["main"].peer_wait_start_ts # None)
    /\ [][LET s == st["main"]
              s1 == st'["main"]
          IN  (pc["main"] = "timeout" /\ s.waiting_for_peer
                 /\ s.now_ts - s.peer_wait_start_ts > peer_timeout) =>
                /\ ~s1.waiting_for_peer
                /\ ~s1.session_active
                /\ ~Has(ev'.log, "treat")
                /\ s1.cycles_this_hour = s.cycles_this_hour
                /\ s1.next_session_time = TopOfHour(clock) + HourSeconds
         ]_vars
    /\ (WaitCanEnd ~> ~st["main"].waiting_for_peer)

\* the Primary has just given up a wait at the timeout check
C7_Witness ==
    /\ ev.who = "main"
    /\ ev.log = <<"peer_timeout">>
    /\ ~st["main"].waiting_for_peer
    /\ st["main"].next_session_time = TopOfHour(clock) + HourSeconds

\* C8: a MANUAL_START is accepted exactly when the node is the Primary, in no
\* episode, not waiting for the peer, and below the quota: then the next
\* start becomes the tick's time and nothing else changes, and the scheduled
\* start of the same tick starts the episode; in every other case no global
\* changes, so that at the quota the next start stays None.  The Primary
\* starts no episode at the quota.
C8_ManualStart ==
    [][/\ \A n \in Node :
            AboutToHandle(n, "MANUAL_START") =>
               IF n = "main" /\ ~st[n].session_active /\ ~st[n].waiting_for_peer
                    /\ st[n].cycles_this_hour < max_cycles_per_hour
               THEN /\ st' = [st EXCEPT ![n].next_session_time = st[n].now_ts]
                    /\ hist'.accepted
               ELSE /\ st' = st
                    /\ hist'.accepted = hist.accepted
       /\ (pc["main"] = "sched" /\ hist.accepted) =>
             /\ st'["main"].session_active
             /\ st'["main"].session_start_ts = clock
             /\ Has(ev'.log, "thread_start")
       /\ (~st["main"].session_active /\ st'["main"].session_active) =>
             st["main"].cycles_this_hour < max_cycles_per_hour
      ]_vars

\* the Primary, at the quota and paused, has just ignored a MANUAL_START
C8_Witness ==
    /\ ev.who = "main"
    /\ ev.log = <<"manual_start_ignored">>
    /\ st["main"].cycles_this_hour = max_cycles_per_hour
    /\ st["main"].next_session_time = None
    /\ ~st["main"].session_active
    /\ ~st["main"].waiting_for_peer

\* C9: a MANUAL_TREAT handled by the Secondary, or by the Primary in an
\* episode or waiting for the peer, runs no motion sequence and changes no
\* global; no step of the Secondary runs the dispense sequence.
C9_ManualTreatRejected ==
    [][/\ \A n \in Node :
            (AboutToHandle(n, "MANUAL_TREAT")
               /\ (n = "secondary" \/ st[n].session_active \/ st[n].waiting_for_peer)) =>
               /\ ev'.log = <<"manual_treat_rejected">>
               /\ st' = st
               /\ clock' = clock
               /\ UNCHANGED <<movement_stop_event, movement_thread, workers, hist>>
       /\ ev'.who = "secondary" => ~Has(ev'.log, "treat")
      ]_vars

\* the Primary, waiting for the peer, has just rejected a MANUAL_TREAT
C9_Witness ==
    /\ ev.who = "main"
    /\ ev.log = <<"manual_treat_rejected">>
    /\ st["main"].waiting_for_peer

\* C10: the dispense sequence runs only when no worker thread of the node is
\* alive.
C10_NoDispenseWhileWorkerRuns ==
    Has(ev.log, "treat") => workers[ev.who] = <<>>

\* the node is about to begin an iteration of its main loop
AboutToBegin(n) == pc[n] = "top" /\ pc'[n] = "msgs"

\* C11: for both roles and in any state, the iteration that observes an hour
\* other than the recorded one sets the cycle counter to 0 and records the
\* hour, so that the same change is not observed again; an iteration that
\* observes the recorded hour leaves the counter; every other step leaves it
\* or, on the Primary handling PI2_DONE while it waits, adds one.
C11_CounterResets ==
    [][\A n \in Node :
         LET s == st[n]
             s1 == st'[n]
         IN  IF AboutToBegin(n)
             THEN IF HourOf(clock) # s.current_hour
                  THEN /\ s1.cycles_this_hour = 0
                       /\ s1.current_hour = HourOf(clock)
                  ELSE /\ s1.cycles_this_hour = s.cycles_this_hour
                       /\ s1.current_hour = s.current_hour
             ELSE /\ s1.current_hour = s.current_hour
                  /\ \/ s1.cycles_this_hour = s.cycles_this_hour
                     \/ /\ s1.cycles_this_hour = s.cycles_this_hour + 1
                        /\ n = "main"
                        /\ AboutToHandle(n, "PI2_DONE")
                        /\ s.waiting_for_peer
      ]_vars

\* the Primary, in an episode that follows a completed cycle, has just
\* observed an hour change
C11_Witness ==
    /\ ev.who = "main"
    /\ ev.log = <<"new_hour">>
    /\ st["main"].session_active
    /\ st["main"].cat_seen
    /\ st["main"].cycles_this_hour = 0
    /\ hist.peerTreats = 1

\* C12: the Primary's iteration that observes an hour change sets the next
\* start to the top of the new hour, in any state and whatever the next start
\* was; a next start of None changes in no other step, and no episode starts
\* while it is None; when the Primary is idle at the observation, the
\* scheduled start of the same iteration starts an episode.
C12_HourBoundary ==
    [][LET s == st["main"]
           s1 == st'["main"]
       IN  /\ (AboutToBegin("main") /\ HourOf(clock) # s.current_hour) =>
                 s1.next_session_time = TopOfHour(clock)
           /\ (s.next_session_time = None /\ s1.next_session_time # None) =>
                 (AboutToBegin("main") /\ HourOf(clock) # s.current_hour)
           /\ (~s.session_active /\ s1.session_active) =>
                 s.next_session_time # None
           /\ (pc["main"] = "sched" /\ hist.hourSeenIdle) =>
                 /\ s1.session_active
                 /\ Has(ev'.log, "thread_start")
      ]_vars

\* the Primary, idle since a completed cycle, has just started an episode in
\* the iteration that observed the hour change
C12_Witness ==
    /\ ev.who = "main"
    /\ Has(ev.log, "scheduled_start")
    /\ st["main"].next_session_time = TopOfHour(clock)
    /\ st["main"].session_start_ts = TopOfHour(clock)
    /\ st["main"].cycles_this_hour = 0
    /\ hist.peerTreats = 1

\* C13 as stated: the Primary starts at most max_cycles_per_hour episodes in
\* one observed hour.
C13_EpisodesWithinQuota == hist.starts <= max_cycles_per_hour

\* C13 amended: in one observed hour the Primary dispenses upon PI2_DONE at
\* most max_cycles_per_hour times, and it starts an episode only while fewer
\* dispenses than that were made in the hour.
C13_CyclesWithinQuota ==
    /\ hist.hourTreats <= max_cycles_per_hour
    /\ (ev.who = "main" /\ Has(ev.log, "thread_start")) =>
          hist.hourTreats < max_cycles_per_hour

\* the Primary has just started one episode more than the quota in an hour
\* in which it dispensed less often than the quota
C13_Witness ==
    /\ ev.who = "main"
    /\ Has(ev.log, "thread_start")
    /\ hist.starts = max_cycles_per_hour + 1
    /\ hist.hourTreats < max_cycles_per_hour

\* the held score of the node is above the threshold
ScoreAbove(n) ==
    /\ st[n].last_distance_score # None
    /\ st[n].last_distance_score > CloseThreshold

\* C14: in an episode, the session rules confirm close contact (and end the
\* episode in the same step) only when the held score is above the threshold
\* and the streak started at least 10 s before; the streak starts at the
\* evaluation that finds the score above the threshold with no streak, runs
\* on while every evaluation finds it above, and is set back to None by an
\* evaluation that finds the score at or below the threshold or absent; it
\* is None when an episode starts and changes in no other step; close contact
\* is never confirmed between iterations, so it is confirmed at most once in
\* an episode.
C14_CloseConfirmation ==
    /\ [](\A n \in Node : pc[n] # "rules" => ~st[n].local_close_complete)
    /\ [][\A n \in Node :
            LET s == st[n]
                s1 == st'[n]
                fired == ev'.who = n /\ Has(ev'.log, "success")
            IN  IF pc[n] = "rules" /\ s.session_active
                THEN /\ ~ScoreAbove(n) => (~fired /\ s1.close_start_ts = None)
                     /\ (ScoreAbove(n) /\ s.close_start_ts = None) =>
                           (~fired /\ s1.close_start_ts = clock)
                     /\ (ScoreAbove(n) /\ s.close_start_ts # None) =>
                           s1.close_start_ts = s.close_start_ts
                     /\ fired =>
                           /\ ScoreAbove(n)
                           /\ s.close_start_ts # None
                           /\ clock - s.close_start_ts >= CloseHoldSeconds
                           /\ ~s1.session_active
                ELSE /\ ~fired
                     /\ IF ~s.session_active /\ s1.session_active
                        THEN s1.close_start_ts = None
                        ELSE s1.close_start_ts = s.close_start_ts
         ]_vars

\* a node has just confirmed close contact on a streak that started 20 s or
\* more into the episode
C14_Witness ==
    \E n \in Node :
        /\ ev.who = n
        /\ Has(ev.log, "success")
        /\ st[n].close_start_ts >= st[n].session_start_ts + 2 * CloseHoldSeconds
        /\ clock >= st[n].close_start_ts + CloseHoldSeconds

\* C15: in an episode cat_seen is set only when a poll made in that episode
\* reported a detection, and an episode whose polls all report none has ended
\* once 30 s have passed since its start.
C15_SignalOfThisEpisode ==
    \A n \in Node :
        /\ (st[n].session_active /\ st[n].cat_seen) => hist.signal[n]
        /\ (pc[n] = "top" /\ st[n].session_active /\ ~hist.signal[n]) =>
              st[n].now_ts - st[n].session_start_ts < NoSignalSeconds

SessionDefaults(s) ==
    /\ ~s.cat_seen
    /\ s.close_start_ts = None
    /\ ~s.local_close_complete

\* C16 as stated: whenever no episode is running, cat_seen is false,
\* close_start_ts is None and local_close_complete is false.
C16_DefaultsWhenIdle ==
    \A n \in Node : ~st[n].session_active => SessionDefaults(st[n])

\* C16 as the code has it: an episode that ends leaves local_close_complete
\* false, and cat_seen false when it ends by success; cat_seen after a
\* failure and close_start_ts keep their last values, no step changes the
\* three fields while no episode runs, and every start of an episode sets
\* all three to their defaults.
C16_DefaultsAtStart ==
    [][\A n \in Node :
         LET s == st[n]
             s1 == st'[n]
         IN  /\ (s.session_active /\ ~s1.session_active) =>
                   /\ ~s1.local_close_complete
                   /\ Has(ev'.log, "success") => ~s1.cat_seen
                   /\ ~Has(ev'.log, "success") =>
                         s1.cat_seen = AfterSensing(s, clock).cat_seen
                   /\ s1.close_start_ts = AfterSensing(s, clock).close_start_ts
             /\ (~s.session_active /\ s1.session_active) => SessionDefaults(s1)
             /\ (~s.session_active /\ ~s1.session_active) =>
                   /\ s1.cat_seen = s.cat_seen
                   /\ s1.close_start_ts = s.close_start_ts
                   /\ s1.local_close_complete = s.local_close_complete]_vars

C16_Witness ==
    \E n \in Node :
        /\ ev.who = n
        /\ Has(ev.log, "scheduled_start") \/ Has(ev.log, "pi1_accepted")
        /\ st[n].session_active
        /\ SessionDefaults(st[n])
        /\ hist.stale[n]


\* C17: every servo's stored angle and every angle a thread is about to
\* write to a servo lie within the servo's limits, at every
\* point of any interleaving of the main loop's calls (set_angle and
\* move_smooth with any arguments, the start, stop and dispense sequences)
\* with the worker threads' moves.
InLimits(sid, a) == SERVO_LIMITS[sid][1] <= a /\ a <= SERVO_LIMITS[sid][2]

C17_AnglesWithinLimits ==
    /\ \A sid \in Servo :
          InLimits(sid, rig.current_angles[sid])
    /\ \A t \in Thread :
          rig.thr[t].pend # <<>> => InLimits(rig.thr[t].pend[1], rig.thr[t].pend[2])

\* the main loop's thread has stored the upper limit for an angle asked above
\* it and is about to write it, while a worker is inside a move of the same
\* servo
C17_Witness ==
    /\ rig.thr[0].pend # <<>>
    /\ rig.thr[0].asked > SERVO_LIMITS[rig.thr[0].pend[1]][2]
    /\ rig.thr[0].pend[2] = SERVO_LIMITS[rig.thr[0].pend[1]][2]
    /\ \E w \in 1..MaxRigWorkers :
          rig.thr[w].cur # NoMove /\ rig.thr[w].cur.sid = rig.thr[0].pend[1]


\* C18: with every message on the queue delivered from the peer link, the
\* step that handles a message other than PI1_DONE and PI2_DONE changes no
\* global of the node, runs no motion sequence and sends nothing: it only
\* takes the message off the queue.
C18_OtherPeerTextIsNoOp ==
    [][\A n \in Node, msg \in PeerLines \ {"PI1_DONE", "PI2_DONE"} :
         AboutToHandle(n, msg) /\ ev'.who = n =>
             /\ st' = st
             /\ UNCHANGED <<movement_stop_event, movement_thread, workers, rig>>
             /\ ~Has(ev'.log, "treat")
             /\ \A tok \in PeerTokens : ~Has(ev'.log, "send_" \o tok)]_vars


\* C19: no exception leaves send_ping, also when bt_ser is set to None or
\* the port is closed between the test of bt_ser and the write; a call made
\* while bt_ser is None ends at the test, writes nothing and keeps nothing
\* for later; a line goes out only by the write of a call that is past its
\* test, on an open port; and no step of send_ping changes anything but the
\* link, however the call ends.
C19_SendDropsOrWrites ==
    /\ [](link.send # "raised")
    /\ [][
           /\ (link.send = "idle" /\ ~bt_ser["main"] /\ ev'.who = "send") =>
                 (/\ link'.send = "idle"
                  /\ link'.msg = ""
                  /\ link'.tx = link.tx
                  /\ link'.result = "not_connected")
           /\ (link'.tx # link.tx /\ ev'.who # "peer") =>
                 (/\ ev'.who = "send"
                  /\ link.send = "write"
                  /\ bt_ser["main"] /\ link.port = "open"
                  /\ link'.tx = Append(link.tx, link.msg))
           /\ (ev'.who = "send") =>
                 UNCHANGED <<clock, deadline, pc, st, message_queue, bt_ser,
                             movement_stop_event, movement_thread, workers,
                             speed_mult, rig, hist>>]_vars

\* a call passed its test, bt_ser became None before its write, and the call
\* has returned
C19_Witness ==
    /\ link.result = "AttributeError"
    /\ link.send = "idle"
    /\ ev.who = "send"

Connected == link.pc = "read" /\ bt_ser["main"] /\ link.port = "open"
Available == link.dev /\ ~link.faulty

\* C20: the reader thread is at the head of its loop or reading again and
\* again; whenever an open or a read has raised (also because the device
\* disappeared under an open port), the thread comes to the head of its loop
\* with the port closed and bt_ser None; if from some point on the device is
\* there and does not fail, the link is open from some point on, and if the
\* peer then keeps writing lines, lines keep being put on the queue.
C20_ReaderRetries ==
    /\ []<>(link.pc \in {"exists", "read"})
    /\ (link.pc = "except") ~>
          (link.pc = "exists" /\ ~bt_ser["main"] /\ link.port = "closed")
    /\ (link.pc = "read" /\ link.port = "broken") ~> (link.pc = "except")
    /\ (<>[]Available => <>[]Connected)
    /\ ((<>[]Available /\ []<>(link.rx # <<>>)) =>
          []<>(ev.who = "reader" /\ Has(ev.log, "put")))

\* a line is put on the queue after an open or a read has raised
C20_Witness ==
    /\ ev.who = "reader"
    /\ Has(ev.log, "put")
    /\ link.failed


\* C21: a node is never in an episode and waiting for its peer at once (so
\* it is in exactly one of idle, in an episode, waiting); the Secondary never
\* waits; and peer_wait_start_ts is set exactly while the node waits.
C21_OneState ==
    \A n \in Node :
        /\ ~(st[n].session_active /\ st[n].waiting_for_peer)
        /\ (n = "secondary" => ~st[n].waiting_for_peer)
        /\ (st[n].waiting_for_peer <=> st[n].peer_wait_start_ts # None)

\* the Primary has left its wait, by PI2_DONE or by the timeout, after a
\* success that started it
C21_Witness ==
    /\ ev.who = "main"
    /\ Has(ev.log, "pi2_accepted") \/ Has(ev.log, "peer_timeout")
    /\ ~st["main"].waiting_for_peer
    /\ st["main"].peer_wait_start_ts = None


\* C22: after any sequence of "speed <x>", "faster" and "slower" the speed
\* factor is greater than 0, and right after a "slower" it is at least 0.05.
C22_SpeedPositive ==
    \A n \in Node :
        /\ FloatLess(<<0, 1>>, speed_mult[n])
        /\ (pc[n] # "off" /\ ev.who = "operator" /\ Has(ev.log, "slower")) =>
              FloatLeq(<<1, 20>>, speed_mult[n])

\* C23: within one iteration the trigger sources are handled in a fixed
\* order: the hour change, then the queued lines from the head of the queue
\* on, then the scheduled start, then the peer-timeout check, then inference
\* and the session rules.  So a PI2_DONE handled in the iteration in which
\* the peer timeout has elapsed still runs the dispense sequence and adds one
\* to the counter, and no timeout fires in an iteration that accepted a
\* PI2_DONE; and the iteration that accepted a MANUAL_START, or a PI2_DONE
\* that left the counter below the maximum, starts the episode.
LoopOrder ==
    {<<"top", "msgs">>, <<"msgs", "sched">>, <<"sched", "timeout">>,
     <<"timeout", "infer">>, <<"infer", "rules">>, <<"rules", "top">>}

StepOf(label) ==
    CASE label = "new_hour" -> "top"
      [] label \in {"manual_start_scheduled", "manual_start_ignored",
                    "manual_treat", "manual_treat_rejected", "pi1_accepted",
                    "pi1_discarded", "pi2_accepted", "pi2_discarded",
                    "unmatched"} -> "msgs"
      [] label = "scheduled_start" -> "sched"
      [] label = "peer_timeout" -> "timeout"
      [] label = "infer" -> "infer"
      [] label \in {"no_signal", "no_close", "success"} -> "rules"
      [] OTHER -> "any"

C23_FixedOrder ==
    [][
       \A n \in Node :
          /\ (pc'[n] # pc[n]) => (<<pc[n], pc'[n]>> \in LoopOrder)
          /\ (ev'.who = n) =>
                \A i \in 1..Len(ev'.log) :
                    StepOf(ev'.log[i]) \in {"any", pc[n]}
          /\ (pc[n] = "msgs" /\ ev'.who = n /\ message_queue[n] # <<>>) =>
                /\ message_queue'[n] = Tail(message_queue[n])
                /\ pc'[n] = "msgs"
          /\ (pc[n] = "msgs" /\ pc'[n] = "sched") => (message_queue[n] = <<>>)
          /\ (AboutToHandle(n, "PI2_DONE") /\ PeerTimedOut(n, st[n])) =>
                /\ Has(ev'.log, "pi2_accepted")
                /\ Count(ev'.log, "treat") = 1
                /\ st'[n].cycles_this_hour = st[n].cycles_this_hour + 1
                /\ ~st'[n].waiting_for_peer
                /\ hist'.answered = "late"
          /\ (ev'.who = n /\ Has(ev'.log, "peer_timeout")) =>
                (hist.answered = "no")
          /\ (n = "main" /\ pc[n] = "sched" /\ ev'.who = n
                /\ (hist.accepted
                      \/ (hist.answered # "no"
                            /\ st[n].cycles_this_hour < max_cycles_per_hour))) =>
                /\ Has(ev'.log, "scheduled_start")
                /\ st'[n].session_active
                /\ st'[n].session_start_ts = st[n].now_ts
      ]_vars

\* the Primary has started an episode in the iteration in which it accepted
\* a PI2_DONE that arrived after the peer timeout had elapsed
C23_Witness ==
    /\ ev.who = "main"
    /\ Has(ev.log, "scheduled_start")
    /\ hist.answered = "late"
    /\ st["main"].session_active

\* C24: at most one worker thread of a node is alive at any time.
C24_OneWorker == \A n \in Node : Len(workers[n]) <= 1

\* C25: once movement_sequence_stop has returned, and until the main loop
\* calls the rig again, no worker thread is inside a move or about to write
\* to a servo, and servos 2, 3 and 4 are at their rest angles.
C25_AtRestAfterStop ==
    (rig.seq = "stop" /\ ThreadIdle(0)) =>
       /\ \A w \in 1..MaxRigWorkers :
             /\ rig.thr[w].calls = <<>>
             /\ rig.thr[w].cur = NoMove
             /\ rig.thr[w].pend = <<>>
       /\ rig.current_angles[2] = S2_REST
       /\ rig.current_angles[3] = S3_REST
       /\ rig.current_angles[4] = DOOR_CLOSED

\* C26: with the main loop kept running, every episode of either role ends,
\* whatever the detector reports (every episode that starts early enough for
\* the clock to reach NoCloseSeconds after its start); an episode ends only
\* by one of the three rules; once a signal was seen in an episode the
\* no-signal rule does not end it.
C26_EpisodeEnds ==
    /\ \A n \in Node :
          (/\ st[n].session_active
           /\ st[n].session_start_ts + NoCloseSeconds + TimeStep <= deadline)
             ~> ~st[n].session_active
    /\ [][
          \A n \in Node :
             /\ (st[n].session_active /\ ~st'[n].session_active) =>
                   /\ ev'.who = n
                   /\ pc[n] = "rules"
                   /\ \/ /\ Has(ev'.log, "no_signal")
                         /\ ~hist.signal[n]
                         /\ ~st[n].cat_seen
                         /\ clock - st[n].session_start_ts >= NoSignalSeconds
                         /\ ~st'[n].waiting_for_peer
                      \/ /\ Has(ev'.log, "no_close")
                         /\ clock - st[n].session_start_ts >= NoCloseSeconds
                         /\ ~st'[n].waiting_for_peer
                      \/ /\ Has(ev'.log, "success")
                         /\ st'[n].waiting_for_peer <=> n = "main"
             /\ (st[n].session_active /\ st'[n].session_active /\ st[n].cat_seen) =>
                   st'[n].cat_seen
             /\ (st[n].session_active /\ hist.signal[n] /\ pc[n] = "top") =>
                   st[n].cat_seen
         ]_vars

\* an episode in which a signal was seen, but never close for long enough,
\* has just been ended by the rule of NoCloseSeconds
C26_Witness ==
    \E n \in Node :
       /\ ev.who = n
       /\ Has(ev.log, "no_close")
       /\ hist.signal[n]
       /\ ~st[n].session_active
       /\ clock - st[n].session_start_ts >= NoCloseSeconds

\* C27: in every state of either role the cycle counter is at least 0 and at
\* most max_cycles_per_hour, and the Secondary's counter is 0, whatever the
\* operator and the peer send and whenever the hour changes.
C27_CounterInRange ==
    \A n \in Node :
       /\ st[n].cycles_this_hour \in 0..max_cycles_per_hour
       /\ (n = "secondary") => (st[n].cycles_this_hour = 0)

\* the Primary, at the quota, has just discarded a PI2_DONE that came while
\* it was not waiting
C27_Witness ==
    /\ ev.who = "main"
    /\ ev.log = <<"pi2_discarded">>
    /\ st["main"].cycles_this_hour = max_cycles_per_hour

\* C28: a Primary started before the start hour of the day, and given no
\* MANUAL_START, starts no episode before the start hour.
C28_NoStartBeforeStartHour ==
    (ev.who = "main" /\ Has(ev.log, "scheduled_start")) =>
        st["main"].now_ts >= DayStart(st["main"].now_ts) + start_hour * HourSeconds

====
